---- MODULE Spec2Model ----
(***************************************************************************)
(* Role state machine and status publisher of the leader-elector sidecar.  *)
(*                                                                         *)
(* The repository holds two versions of the program: src/main.go (the      *)
(* refresh goroutine only touches the marker's timestamp, no pod labels)   *)
(* and src/unnamed/part_000 (the refresh goroutine reads the global        *)
(* currentRole on every tick and either rewrites or touches the marker;    *)
(* the callbacks optionally patch the pod's role label).  The variable     *)
(* build says which of the two runs; Init picks either.                    *)
(*                                                                         *)
(* Goroutines: one per election callback (client-go runs OnStartedLeading  *)
(* and OnNewLeader on goroutines of their own, OnStoppedLeading on the     *)
(* election loop), and one per refresh task started by setRole.  Every     *)
(* access to shared state (currentRole, roleCancel, a context, a file) is  *)
(* a step of its own, so that the interleavings the Go scheduler allows    *)
(* are the behaviours of the model.  os.WriteFile, os.Remove and           *)
(* os.Chtimes are taken as atomic.  The faults modelled are the ones the    *)
(* code handles: a failing os.WriteFile and a failing os.Chtimes (their    *)
(* errors are printed); os.Remove removes the file or finds none.          *)
(***************************************************************************)
EXTENDS Naturals, FiniteSets

\* ------------------------------------------------------------------ bounds

\* Refresh tasks (effective transitions) a behaviour may start.
MaxTasks == 3

\* Ticker firings a behaviour may see; the wall clock counts them.
MaxClock == 2

\* The same two caps for the specification with fairness.
MaxFairTasks == 2

MaxFairClock == 1

\* ------------------------------------------------------- program constants

leaderFile == "leader"

followerFile == "follower"

Paths == {leaderFile, followerFile}

\* os.Hostname() of this process, and the identity of another contender.
SelfId == "pod-a"

OtherId == "pod-b"

Identities == {SelfId, OtherId}

\* The zero value of the currentRole string.
Unknown == ""

Roles == {"leader", "follower"}

Builds == {"main.go", "part_000"}

Callbacks == {"OnStartedLeading", "OnStoppedLeading", "OnNewLeader"}

TaskIds == 1..MaxTasks

\* The nil context.CancelFunc.
NilCancel == 0

VARIABLES
    build,          \* which version of the program runs
    labelPodRole,   \* LABEL_POD_ROLE == "true" (part_000 only)
    currentRole,    \* the global currentRole
    roleCancel,     \* the global roleCancel: the task whose context it cancels
    fs,             \* the status directory: path -> file
    task,           \* the refresh goroutines started by setRole
    caller,         \* the callback goroutines: where each is
    podLabel,       \* the pod's role label in the cluster
    clock,          \* the wall clock, in ticker periods
    effective       \* history: the setRole calls made with role # currentRole

vars == <<build, labelPodRole, currentRole, roleCancel, fs, task, caller, podLabel, clock,
          effective>>

\* Durations of the configuration, in seconds.
\* main.go: tickInterval = 5 * time.Second.
tickIntervalMain == 5

\* part_000: tickInterval = 2 * time.Second, "Match leader election retry
\* period".
tickIntervalPart == 2

\* LeaderElectionConfig, the same in both versions.
LeaseDuration == 15

RenewDeadline == 10

RetryPeriod == 2

\* The lease duration used as the period of the ticker.
tickInterval_Lease == LeaseDuration

\* The period of the ticker a refresh goroutine creates.
tickInterval == IF build = "part_000" THEN tickIntervalPart ELSE tickIntervalMain

\* --------------------------------------------------------------- the files

NoFile == [exists |-> FALSE, content |-> "", mtime |-> 0]

\* os.Remove: on a missing file an error, which the caller ignores.
Remove(dir, path) == [dir EXCEPT ![path] = NoFile]

\* os.WriteFile: creates or truncates, writes data; the OS stamps the time.
WriteFile(dir, path, data, time) ==
    [dir EXCEPT ![path] = [exists |-> TRUE, content |-> data, mtime |-> time]]

\* os.Chtimes: fails on a missing file, never creates one, keeps the content.
Chtimes(dir, path, time) ==
    IF dir[path].exists THEN [dir EXCEPT ![path].mtime = time] ELSE dir

\* filePath := followerFile; if role == "leader" { filePath = leaderFile }
RolePath(role) == IF role = "leader" THEN leaderFile ELSE followerFile

\* The role a callback hands to setRole.
CallbackRole(cb) == IF cb = "OnStartedLeading" THEN "leader" ELSE "follower"

\* ------------------------------------------------------------------- tasks

\* pc: where the goroutine is; path, identity: what its closure captured;
\* done: its context is cancelled; now: the tick's time.Now().  ticked is
\* history: the task completed a tick before its context was cancelled.
NoTask == [pc |-> "none", path |-> followerFile, identity |-> SelfId,
           done |-> FALSE, now |-> 0, ticked |-> FALSE]

Started(t) == task[t].pc # "none"

\* A goroutine that has been started and has not returned.
Alive(t) == task[t].pc \notin {"none", "exited"}

NumStarted == Cardinality({t \in TaskIds : Started(t)})

IdleCaller == [pc |-> "idle", identity |-> SelfId]

\* A callback goroutine is inside the callback's body before <-ctx.Done().
InFlight(cb) == caller[cb].pc \notin {"idle", "wait_ctx"}

NoneInFlight == \A cb \in Callbacks : ~InFlight(cb)

\* -------------------------------------------------------------------- Init

Init ==
    /\ build \in Builds
    /\ labelPodRole \in (IF build = "part_000" THEN BOOLEAN ELSE {FALSE})
    /\ currentRole = Unknown
    /\ roleCancel = NilCancel
    /\ fs = [p \in Paths |-> NoFile]
    /\ task = [t \in TaskIds |-> NoTask]
    /\ caller = [cb \in Callbacks |-> IdleCaller]
    /\ podLabel = ""
    /\ clock = 0
    /\ effective = 0

\* ------------------------------------------------- the election callbacks

\* Where a callback goes when setRole has returned.
AfterSetRole(cb) ==
    IF build = "part_000" /\ labelPodRole THEN "patch"
    ELSE IF cb = "OnStartedLeading" THEN "wait_ctx" ELSE "idle"

\* The election coordinator calls a callback.  OnStartedLeading and
\* OnStoppedLeading go straight into setRole; OnNewLeader first compares
\* the identity it is given.
Begin(cb, identity) ==
    /\ caller[cb].pc = "idle"
    /\ NumStarted < MaxTasks
    /\ identity \in (IF cb = "OnNewLeader" THEN Identities ELSE {SelfId})
    /\ caller' = [caller EXCEPT ![cb] =
                    [pc |-> IF cb = "OnNewLeader" THEN "entry" ELSE "guard",
                     identity |-> identity]]
    /\ UNCHANGED <<build, labelPodRole, currentRole, roleCancel, fs, task, podLabel, clock,
                 effective>>

\* Callbacks delivered one at a time: none starts while another is inside
\* its body.
Invoke(cb, identity) ==
    /\ NoneInFlight
    /\ Begin(cb, identity)

\* The comparison dropped: every new leader makes this process a follower.
IsOtherIdentity_Always(identity) == TRUE

\* if identity != id { setRole("follower", id) ... }
IsOtherIdentity(identity) == identity # SelfId

NewLeaderCheck ==
    /\ caller["OnNewLeader"].pc = "entry"
    /\ \/ /\ IsOtherIdentity(caller["OnNewLeader"].identity)
          /\ caller' = [caller EXCEPT !["OnNewLeader"] = [pc |-> "guard", identity |-> SelfId]]
       \/ /\ ~IsOtherIdentity(caller["OnNewLeader"].identity)
          /\ caller' = [caller EXCEPT !["OnNewLeader"] = IdleCaller]
    /\ UNCHANGED <<build, labelPodRole, currentRole, roleCancel, fs, task, podLabel, clock,
                 effective>>

\* ----------------------------------------------------------------- setRole

\* The guard dropped: every call is taken for a change of role.
SameRole_Dropped(role) == FALSE

\* if currentRole == role { return }
SameRole(role) == currentRole = role

SetRoleGuard(cb) ==
    /\ caller[cb].pc = "guard"
    /\ \/ /\ SameRole(CallbackRole(cb))
          /\ caller' = [caller EXCEPT ![cb].pc = "return"]
       \/ /\ ~SameRole(CallbackRole(cb))
          /\ caller' = [caller EXCEPT ![cb].pc = "cancel"]
    /\ effective' = effective + (IF currentRole # CallbackRole(cb) THEN 1 ELSE 0)
    /\ UNCHANGED <<build, labelPodRole, currentRole, roleCancel, fs, task, podLabel, clock>>

\* The return of the guard: setRole is left with nothing done.
SetRoleReturn(cb) ==
    /\ caller[cb].pc = "return"
    /\ caller' = [caller EXCEPT ![cb].pc = AfterSetRole(cb)]
    /\ UNCHANGED <<build, labelPodRole, currentRole, roleCancel, fs, task, podLabel, clock,
                 effective>>

\* if roleCancel != nil { roleCancel() }: the context is marked done; the
\* call does not wait for the goroutine.
SetRoleCancel(cb) ==
    /\ caller[cb].pc = "cancel"
    /\ \/ /\ roleCancel # NilCancel
          /\ task' = [task EXCEPT ![roleCancel].done = TRUE]
       \/ /\ roleCancel = NilCancel
          /\ UNCHANGED task
    /\ caller' = [caller EXCEPT ![cb].pc = "rm_leader"]
    /\ UNCHANGED <<build, labelPodRole, currentRole, roleCancel, fs, podLabel, clock,
                 effective>>

\* os.Remove(leaderFile)
SetRoleRemoveLeader(cb) ==
    /\ caller[cb].pc = "rm_leader"
    /\ fs' = Remove(fs, leaderFile)
    /\ caller' = [caller EXCEPT ![cb].pc = "rm_follower"]
    /\ UNCHANGED <<build, labelPodRole, currentRole, roleCancel, task, podLabel, clock,
                 effective>>

\* os.Remove(followerFile)
SetRoleRemoveFollower(cb) ==
    /\ caller[cb].pc = "rm_follower"
    /\ fs' = Remove(fs, followerFile)
    /\ caller' = [caller EXCEPT ![cb].pc = "write"]
    /\ UNCHANGED <<build, labelPodRole, currentRole, roleCancel, task, podLabel, clock,
                 effective>>

\* os.WriteFile(filePath, []byte(identity), 0644), succeeding
SetRoleWrite(cb) ==
    /\ caller[cb].pc = "write"
    /\ fs' = WriteFile(fs, RolePath(CallbackRole(cb)), caller[cb].identity, clock)
    /\ caller' = [caller EXCEPT ![cb].pc = "assign"]
    /\ UNCHANGED <<build, labelPodRole, currentRole, roleCancel, task, podLabel, clock,
                 effective>>

\* Stepping down clears the role instead of recording follower.
SetRoleAssign_Clears(cb) ==
    /\ caller[cb].pc = "assign"
    /\ currentRole' = (IF CallbackRole(cb) = "leader" THEN "leader" ELSE Unknown)
    /\ caller' = [caller EXCEPT ![cb].pc = "spawn"]
    /\ UNCHANGED <<build, labelPodRole, roleCancel, fs, task, podLabel, clock,
                 effective>>

\* currentRole = role
SetRoleAssign(cb) ==
    /\ caller[cb].pc = "assign"
    /\ currentRole' = CallbackRole(cb)
    /\ caller' = [caller EXCEPT ![cb].pc = "spawn"]
    /\ UNCHANGED <<build, labelPodRole, roleCancel, fs, task, podLabel, clock,
                 effective>>

\* The goroutine setRole starts: bound to filePath and identity, at its select.
NewTask(role, identity) ==
    [pc |-> "select", path |-> RolePath(role), identity |-> identity,
     done |-> FALSE, now |-> 0, ticked |-> FALSE]

\* The goroutine is started but its cancel function is not stored.
SetRoleSpawn_KeepsCancel(cb) ==
    /\ caller[cb].pc = "spawn"
    /\ NumStarted < MaxTasks
    /\ task' = [task EXCEPT ![NumStarted + 1] =
                  NewTask(CallbackRole(cb), caller[cb].identity)]
    /\ caller' = [caller EXCEPT ![cb].pc = AfterSetRole(cb)]
    /\ UNCHANGED <<build, labelPodRole, currentRole, roleCancel, fs, podLabel, clock,
                 effective>>

\* ctx, cancel := context.WithCancel(...); roleCancel = cancel; go func() {...}()
SetRoleSpawn(cb) ==
    /\ caller[cb].pc = "spawn"
    /\ NumStarted < MaxTasks
    /\ LET t == NumStarted + 1 IN
        /\ task' = [task EXCEPT ![t] = NewTask(CallbackRole(cb), caller[cb].identity)]
        /\ roleCancel' = t
    /\ caller' = [caller EXCEPT ![cb].pc = AfterSetRole(cb)]
    /\ UNCHANGED <<build, labelPodRole, currentRole, fs, podLabel, clock,
                 effective>>

\* A failed patch undoes the local transition: the role is forgotten.
PatchPodRole_Reverts(cb) ==
    /\ caller[cb].pc = "patch"
    /\ \/ podLabel' = CallbackRole(cb) /\ UNCHANGED currentRole
       \/ UNCHANGED podLabel /\ currentRole' = Unknown
    /\ caller' = [caller EXCEPT ![cb].pc =
                    IF cb = "OnStartedLeading" THEN "wait_ctx" ELSE "idle"]
    /\ UNCHANGED <<build, labelPodRole, roleCancel, fs, task, clock,
                 effective>>

\* patchPodRole(clientset, namespace, podName, role): the patch reaches the
\* cluster or fails; the callback drops the error.
PatchPodRole(cb) ==
    /\ caller[cb].pc = "patch"
    /\ \/ podLabel' = CallbackRole(cb)
       \/ UNCHANGED podLabel
    /\ caller' = [caller EXCEPT ![cb].pc =
                    IF cb = "OnStartedLeading" THEN "wait_ctx" ELSE "idle"]
    /\ UNCHANGED <<build, labelPodRole, currentRole, roleCancel, fs, task, clock,
                 effective>>

\* <-ctx.Done() in OnStartedLeading: the coordinator gives up leadership.
LeadingCtxDone ==
    /\ caller["OnStartedLeading"].pc = "wait_ctx"
    /\ caller' = [caller EXCEPT !["OnStartedLeading"] = IdleCaller]
    /\ UNCHANGED <<build, labelPodRole, currentRole, roleCancel, fs, task, podLabel, clock,
                 effective>>

\* ------------------------------------------------------ the refresh task

\* case <-ticker.C: now := time.Now().  The ticker's period has passed.  A
\* select with both channels ready picks either, so a cancelled task may
\* still take this branch.
TaskTick(t) ==
    /\ task[t].pc = "select"
    /\ clock < MaxClock
    /\ clock' = clock + 1
    /\ task' = [task EXCEPT ![t].now = clock + 1,
                            ![t].pc = IF build = "part_000" THEN "check" ELSE "touch"]
    /\ UNCHANGED <<build, labelPodRole, currentRole, roleCancel, fs, caller, podLabel, effective>>

\* case <-ctx.Done(): return
TaskDone(t) ==
    /\ task[t].pc = "select"
    /\ task[t].done
    /\ task' = [task EXCEPT ![t].pc = "exited", ![t].now = 0]
    /\ UNCHANGED <<build, labelPodRole, currentRole, roleCancel, fs, caller, podLabel, clock,
                 effective>>

\* part_000: if currentRole == "leader" {...} else {...}: an unsynchronised
\* read of the global, which yields the value before or after a concurrent
\* assignment according to where this step falls.
TickWrites == currentRole = "leader"

TaskCheck(t) ==
    /\ task[t].pc = "check"
    /\ \/ /\ TickWrites
          /\ task' = [task EXCEPT ![t].pc = "write"]
       \/ /\ ~TickWrites
          /\ task' = [task EXCEPT ![t].pc = "touch"]
    /\ UNCHANGED <<build, labelPodRole, currentRole, roleCancel, fs, caller, podLabel, clock,
                 effective>>

\* part_000: os.WriteFile(filePath, []byte(identity), 0644), succeeding
TaskWrite(t) ==
    /\ task[t].pc = "write"
    /\ fs' = WriteFile(fs, task[t].path, task[t].identity, clock)
    /\ task' = [task EXCEPT ![t].pc = "select", ![t].now = 0,
                            ![t].ticked = task[t].ticked \/ ~task[t].done]
    /\ UNCHANGED <<build, labelPodRole, currentRole, roleCancel, caller, podLabel, clock,
                 effective>>

\* os.Chtimes(filePath, now, now): on a missing file it fails, the error is
\* printed and the loop goes on.
TaskTouch(t) ==
    /\ task[t].pc = "touch"
    /\ fs' = Chtimes(fs, task[t].path, task[t].now)
    /\ task' = [task EXCEPT ![t].pc = "select", ![t].now = 0,
                            ![t].ticked = task[t].ticked \/ ~task[t].done]
    /\ UNCHANGED <<build, labelPodRole, currentRole, roleCancel, caller, podLabel, clock,
                 effective>>

\* -------------------------------------------------------- specifications

CallbackStep(cb) ==
    \/ SetRoleGuard(cb)
    \/ SetRoleReturn(cb)
    \/ SetRoleCancel(cb)
    \/ SetRoleRemoveLeader(cb)
    \/ SetRoleRemoveFollower(cb)
    \/ SetRoleWrite(cb)
    \/ SetRoleAssign(cb)
    \/ SetRoleSpawn(cb)
    \/ PatchPodRole(cb)

TaskStep(t) ==
    \/ TaskTick(t)
    \/ TaskDone(t)
    \/ TaskCheck(t)
    \/ TaskWrite(t)
    \/ TaskTouch(t)

\* Callbacks one at a time, a filesystem that does not fail.
Next ==
    \/ \E cb \in Callbacks, identity \in Identities : Invoke(cb, identity)
    \/ NewLeaderCheck
    \/ \E cb \in Callbacks : CallbackStep(cb)
    \/ LeadingCtxDone
    \/ \E t \in TaskIds : TaskStep(t)

Spec == Init /\ [][Next]_vars

\* ------------------------------------------------------ filesystem faults

\* The write error taken as fatal to the transition: setRole returns on it.
SetRoleWriteFails_Returns(cb) ==
    /\ caller[cb].pc = "write"
    /\ caller' = [caller EXCEPT ![cb].pc = AfterSetRole(cb)]
    /\ UNCHANGED <<build, labelPodRole, currentRole, roleCancel, fs, task, podLabel, clock,
                 effective>>

\* os.WriteFile fails: "failed to write %s file" is printed, setRole goes on.
SetRoleWriteFails(cb) ==
    /\ caller[cb].pc = "write"
    /\ caller' = [caller EXCEPT ![cb].pc = "assign"]
    /\ UNCHANGED <<build, labelPodRole, currentRole, roleCancel, fs, task, podLabel, clock,
                 effective>>

\* An error of the tick's file operation ends the goroutine.
TaskOpFails_Exits(t) ==
    /\ task[t].pc \in {"write", "touch"}
    /\ task' = [task EXCEPT ![t].pc = "exited", ![t].now = 0]
    /\ UNCHANGED <<build, labelPodRole, currentRole, roleCancel, fs, caller, podLabel, clock,
                 effective>>

\* The tick's os.WriteFile or os.Chtimes fails: the error is printed and the
\* loop goes back to its select.
TaskOpFails(t) ==
    /\ task[t].pc \in {"write", "touch"}
    /\ task' = [task EXCEPT ![t].pc = "select", ![t].now = 0,
                            ![t].ticked = task[t].ticked \/ ~task[t].done]
    /\ UNCHANGED <<build, labelPodRole, currentRole, roleCancel, fs, caller, podLabel, clock,
                 effective>>

\* Callbacks one at a time, a filesystem whose operations may fail.
NextFault ==
    \/ Next
    \/ \E cb \in Callbacks : SetRoleWriteFails(cb)
    \/ \E t \in TaskIds : TaskOpFails(t)

SpecFault == Init /\ [][NextFault]_vars

\* The scheduling of a refresh goroutine: a goroutine that can run does run,
\* so a file operation under way returns (weak fairness), and a select that
\* finds ctx.Done() ready again and again takes that case at some time, the
\* choice among ready cases being uniformly random (strong fairness).
TaskFairness ==
    \A t \in TaskIds :
        /\ SF_vars(TaskDone(t))
        /\ WF_vars(TaskCheck(t) \/ TaskWrite(t) \/ TaskTouch(t) \/ TaskOpFails(t))

\* The steps of SpecFault with caps of their own on the tasks started and on
\* the clock, which keep the check of a liveness property within reach.
NextFair ==
    \/ \E cb \in Callbacks, identity \in Identities :
          NumStarted < MaxFairTasks /\ Invoke(cb, identity)
    \/ NewLeaderCheck
    \/ \E cb \in Callbacks : CallbackStep(cb)
    \/ \E cb \in Callbacks : SetRoleWriteFails(cb)
    \/ LeadingCtxDone
    \/ \E t \in TaskIds : clock < MaxFairClock /\ TaskTick(t)
    \/ \E t \in TaskIds :
          TaskDone(t) \/ TaskCheck(t) \/ TaskWrite(t) \/ TaskTouch(t) \/ TaskOpFails(t)

SpecFair == Init /\ [][NextFair]_vars /\ TaskFairness

\* Callbacks one at a time; only the marker write of a transition may fail,
\* every file operation of a tick is carried out.
NextWriteFault ==
    \/ Next
    \/ \E cb \in Callbacks : SetRoleWriteFails(cb)

SpecWriteFault == Init /\ [][NextWriteFault]_vars

\* Callbacks on goroutines of their own: OnStartedLeading and OnNewLeader
\* are started with go by the coordinator, OnStoppedLeading runs in the
\* coordinator's own goroutine, and setRole takes no lock, so one callback
\* may start while another is inside setRole.  A callback starts only while
\* a task id is left for it.
Arrive(cb, identity) ==
    /\ NumStarted + Cardinality({c \in Callbacks : InFlight(c)}) < MaxTasks
    /\ Begin(cb, identity)

NextConc ==
    \/ \E cb \in Callbacks, identity \in Identities : Arrive(cb, identity)
    \/ NewLeaderCheck
    \/ \E cb \in Callbacks : CallbackStep(cb)
    \/ LeadingCtxDone
    \/ \E t \in TaskIds : TaskStep(t)

SpecConc == Init /\ [][NextConc]_vars

\* ------------------------------------------------------------------ claims

Markers == {p \in Paths : fs[p].exists}

AliveTasks == {t \in TaskIds : Alive(t)}

\* A step in which task t's tick changes the status directory.
TaskMutates(t) ==
    /\ task[t].pc \in {"write", "touch"}
    /\ task'[t].pc = "select"
    /\ fs' # fs

\* The statements of setRole after its guard.
SetRoleBody == {"cancel", "rm_leader", "rm_follower", "write", "assign", "spawn"}

\* C1: whenever no callback is inside its body and a transition has been
\* made, exactly one marker file exists, it is the one of the role of the
\* last transition (currentRole), and it holds the process identity, the
\* identity every transition is given.
C1_MarkerOfLastTransition ==
    (NoneInFlight /\ currentRole # Unknown) =>
        /\ Markers = {RolePath(currentRole)}
        /\ fs[RolePath(currentRole)].content = SelfId

\* C2: in every reachable state, the states inside setRole and inside a
\* tick included, the leader and the follower marker are not both present.
C2_AtMostOneMarker == ~(fs[leaderFile].exists /\ fs[followerFile].exists)

\* C3: in every reachable state at most one refresh goroutine is alive.
C3_AtMostOneTaskAlive == Cardinality(AliveTasks) <= 1

\* C4: a refresh task whose context setRole has cancelled changes no marker
\* once that setRole has gone past the cancel to its first os.Remove: the
\* only steps of a cancelled task that change the directory fall while the
\* canceller still stands before os.Remove(leaderFile).
C4_CancelAndJoin ==
    [][\A t \in TaskIds :
          (task[t].done /\ TaskMutates(t)) =>
              \E cb \in Callbacks : caller[cb].pc = "rm_leader"]_vars

\* C5: setRole(role, id) with currentRole = role returns at its guard: the
\* step changes no file, cancels and starts no task, leaves currentRole and
\* roleCancel as they are, and the call ends there without reaching the
\* statements after the guard.
C5_SameRoleIsNoOp ==
    [][\A cb \in Callbacks :
          (caller[cb].pc = "guard" /\ currentRole = CallbackRole(cb) /\ caller'[cb] # caller[cb]) =>
              /\ caller'[cb].pc = "return"
              /\ UNCHANGED <<currentRole, roleCancel, fs, task>>]_vars
    /\ [][\A cb \in Callbacks :
          (caller[cb].pc = "return" /\ caller'[cb] # caller[cb]) =>
              /\ caller'[cb].pc \notin SetRoleBody \cup {"guard"}
              /\ UNCHANGED <<currentRole, roleCancel, fs, task>>]_vars

\* C5 witness: setRole has taken the early return of its guard while the
\* refresh task of the current role runs.
C5_Witness ==
    \E cb \in Callbacks :
        /\ caller[cb].pc = "return"
        /\ currentRole = CallbackRole(cb)
        /\ roleCancel # NilCancel
        /\ Alive(roleCancel)
        /\ ~task[roleCancel].done
        /\ fs[RolePath(currentRole)].exists

\* The step in which callback cb's setRole starts its refresh goroutine and
\* returns.
Completes(cb) == caller[cb].pc = "spawn" /\ caller'[cb].pc # "spawn"

\* C6: OnStartedLeading, then OnStoppedLeading before the Leader task has
\* completed a tick.  When OnStoppedLeading's setRole returns, the follower
\* marker holds the process identity and the leader marker is absent; and
\* from then on, while that is the last transition made, no step of the
\* Leader-bound task brings the leader marker back.
C6_BackToBack ==
    /\ [][(/\ Completes("OnStoppedLeading")
           /\ NumStarted = 1
           /\ task[1].path = leaderFile
           /\ ~task[1].ticked) =>
              /\ fs'[followerFile].exists
              /\ fs'[followerFile].content = SelfId
              /\ ~fs'[leaderFile].exists]_vars
    /\ [][(/\ NumStarted = 2
           /\ NoneInFlight
           /\ currentRole = "follower"
           /\ task[1].path = leaderFile
           /\ ~task[1].ticked
           /\ ~fs[leaderFile].exists) => ~fs'[leaderFile].exists]_vars

\* C7, first half: when the setRole of OnStoppedLeading returns after it
\* replaced the Leader role, the leader marker is absent and the follower
\* marker holds the process identity.
C7_StepDownMarkers ==
    [][(/\ Completes("OnStoppedLeading")
        /\ roleCancel # NilCancel
        /\ task[roleCancel].path = leaderFile) =>
           /\ ~fs'[leaderFile].exists
           /\ fs'[followerFile].exists
           /\ fs'[followerFile].content = SelfId]_vars

\* C7, second half: every tick that the refresh task of the Follower role
\* completes while the role is Follower moves the follower marker's
\* modification time forward and leaves its content as it was.
C7_FollowerTickAdvances ==
    [][\A t \in TaskIds :
          (/\ t = roleCancel
           /\ ~task[t].done
           /\ currentRole = "follower"
           /\ task[t].pc \in {"write", "touch"}
           /\ task'[t].pc = "select") =>
              /\ fs'[followerFile].exists
              /\ fs'[followerFile].mtime > fs[followerFile].mtime
              /\ fs'[followerFile].content = fs[followerFile].content]_vars

\* C7: stepping down removes the leader marker and creates the follower
\* marker with the process identity, and every later tick of the Follower
\* role advances that marker's modification time and keeps its content.
C7_SteppingDown == C7_StepDownMarkers /\ C7_FollowerTickAdvances

\* C8: OnNewLeader given the process's own identity returns at once, in any
\* role, changing neither currentRole, roleCancel, a file nor a task;
\* given another identity it calls setRole("follower", own identity); and
\* no marker ever holds an identity other than the process's own.
C8_SelfLeaderNoOp ==
    /\ [][(caller["OnNewLeader"].pc = "entry" /\ caller'["OnNewLeader"] # caller["OnNewLeader"]) =>
            /\ UNCHANGED <<currentRole, roleCancel, fs, task, podLabel>>
            /\ IF caller["OnNewLeader"].identity = SelfId
               THEN caller'["OnNewLeader"].pc = "idle"
               ELSE /\ caller'["OnNewLeader"].pc = "guard"
                    /\ caller'["OnNewLeader"].identity = SelfId
                    /\ CallbackRole("OnNewLeader") = "follower"]_vars
    /\ [](\A p \in Paths : fs[p].exists => fs[p].content = SelfId)

\* C8 witness: OnNewLeader has been called with the process's own identity
\* while the process is leader, its marker written and its task running.
C8_Witness ==
    /\ caller["OnNewLeader"].pc = "entry"
    /\ caller["OnNewLeader"].identity = SelfId
    /\ currentRole = "leader"
    /\ fs[leaderFile].exists
    /\ roleCancel # NilCancel
    /\ Alive(roleCancel)

\* C9: outside a transition in progress, the leader marker is present only
\* while currentRole is leader: once setRole("follower") has returned the
\* leader marker is absent until the process is leader again.
C9_LeaderMarkerOnlyWhileLeader ==
    NoneInFlight => (fs[leaderFile].exists => currentRole = "leader")

\* C10: a setRole that went past its guard is left only through the start
\* of the refresh goroutine, with currentRole the role asked for and
\* roleCancel the cancel function of a fresh, uncancelled task bound to
\* that role's marker path, whether its os.WriteFile succeeded or failed.
C10_WriteFailureNonFatal ==
    [][\A cb \in Callbacks :
          (caller[cb].pc \in SetRoleBody /\ caller'[cb].pc \notin SetRoleBody) =>
              /\ caller[cb].pc = "spawn"
              /\ currentRole' = CallbackRole(cb)
              /\ roleCancel' # NilCancel
              /\ task[roleCancel'].pc = "none"
              /\ task'[roleCancel'].pc = "select"
              /\ ~task'[roleCancel'].done
              /\ task'[roleCancel'].path = RolePath(CallbackRole(cb))]_vars

\* C10 witness: the transition to leader has returned with its marker write
\* failed: the role is leader, its refresh task runs, the marker is absent.
C10_Witness ==
    /\ NoneInFlight
    /\ currentRole = "leader"
    /\ ~fs[leaderFile].exists
    /\ ~fs[followerFile].exists
    /\ roleCancel # NilCancel
    /\ task[roleCancel].pc = "select"
    /\ ~task[roleCancel].done
    /\ task[roleCancel].path = leaderFile

\* The refresh task of the role held: the one roleCancel cancels, not yet
\* cancelled, while no callback is inside its body.
Current(t) ==
    /\ t = roleCancel
    /\ ~task[t].done
    /\ NoneInFlight
    /\ currentRole \in Roles

\* A step in which task t ends a tick: its file operation returns.
EndsTick(t) == task[t].pc \in {"write", "touch"} /\ task'[t].pc = "select"

\* C11: with only transition writes failing, once the refresh task of the
\* role held has completed a tick while the role is held, the marker of
\* that role exists and holds the identity, for Leader and Follower alike.
C11_TickRetriesFailedWrite ==
    \A t \in TaskIds :
        (Current(t) /\ task[t].ticked) =>
            /\ fs[RolePath(currentRole)].exists
            /\ fs[RolePath(currentRole)].content = SelfId

\* C12: while a role is held, the refresh task of that role does not end a
\* second tick in a row without the marker of the role stamped: the tick it
\* ends after an earlier completed one leaves the marker present, its
\* modification time the tick's own (now, or the time of the rewrite).
C12_FreshWithinTwoTicks ==
    [][\A t \in TaskIds :
          (Current(t) /\ task[t].ticked /\ EndsTick(t)) =>
              /\ fs'[RolePath(currentRole)].exists
              /\ fs'[RolePath(currentRole)].mtime \in {task[t].now, clock}]_vars

\* C13: currentRole starts as Unknown, is always one of Unknown, leader and
\* follower, and once it is leader or follower no step makes it Unknown
\* again.
C13_RoleNeverBackToUnknown ==
    /\ currentRole = Unknown
    /\ [](currentRole \in {Unknown} \cup Roles)
    /\ [][currentRole # Unknown => currentRole' # Unknown]_vars

\* The role has been set and then changed by a second transition.
C13_Witness ==
    /\ currentRole = "follower"
    /\ NoneInFlight
    /\ \E t \in TaskIds : task[t].path = leaderFile /\ task[t].done

\* C14: what a tick does follows the role the task was started for, also
\* after currentRole has changed: a task bound to the leader marker ends
\* each tick having rewritten it with the identity, and a task bound to the
\* follower marker only sets its modification time, leaving its content and
\* its existence as they were.
C14_TickFollowsBoundRole ==
    [][\A t \in TaskIds :
          EndsTick(t) =>
              /\ task[t].path = leaderFile =>
                    /\ task[t].pc = "write"
                    /\ fs'[leaderFile].exists
                    /\ fs'[leaderFile].content = task[t].identity
              /\ task[t].path = followerFile =>
                    /\ task[t].pc = "touch"
                    /\ fs'[followerFile].exists = fs[followerFile].exists
                    /\ fs'[followerFile].content = fs[followerFile].content]_vars

\* The local state a transition to role leaves when it returns: currentRole
\* set, and roleCancel the cancel function of a started, uncancelled task
\* bound to the marker path of role.
LocalDone(role) ==
    /\ currentRole = role
    /\ roleCancel # NilCancel
    /\ Started(roleCancel)
    /\ ~task[roleCancel].done
    /\ task[roleCancel].path = RolePath(role)

\* C15: patchPodRole is called only once the local transition is complete
\* (marker written, currentRole set, refresh task started), and whether the
\* patch succeeds or fails it leaves currentRole, the marker files, the
\* refresh tasks and roleCancel as they were.
C15_LabelerAfterLocalState ==
    /\ [](\A cb \in Callbacks :
            caller[cb].pc = "patch" =>
                /\ LocalDone(CallbackRole(cb))
                /\ fs[RolePath(CallbackRole(cb))].exists)
    /\ [][\A cb \in Callbacks :
            (caller[cb].pc = "patch" /\ caller'[cb].pc # "patch") =>
                UNCHANGED <<currentRole, roleCancel, fs, task>>]_vars

\* A patch of the follower label has failed after a completed step-down:
\* the label still says leader, the local state says follower.
C15_Witness ==
    /\ labelPodRole
    /\ NoneInFlight
    /\ podLabel = "leader"
    /\ LocalDone("follower")
    /\ fs[followerFile].exists

\* C16: patchPodRole is called only as a step of an effective transition:
\* a callback reaches the call from the start of the new refresh task,
\* never from the return of the guard role == currentRole.
C16_LabelerOnlyOnTransition ==
    [][\A cb \in Callbacks :
          (caller[cb].pc # "patch" /\ caller'[cb].pc = "patch") =>
              caller[cb].pc = "spawn"]_vars

\* Some refresh goroutine has created its ticker.
TickerCreated == \E t \in TaskIds : Started(t)

\* C17 as stated: the period of every ticker created is strictly shorter
\* than both RetryPeriod and RenewDeadline.
C17_TickShorterThanRetry ==
    TickerCreated => (tickInterval < RetryPeriod /\ tickInterval < RenewDeadline)

\* C17, amended: the period of every ticker created is strictly shorter than
\* RenewDeadline, and it is not shorter than RetryPeriod: equal to it in
\* part_000, longer in main.go.
C17_TickShorterThanRenewDeadline ==
    TickerCreated =>
        /\ tickInterval < RenewDeadline
        /\ tickInterval >= RetryPeriod
        /\ build = "part_000" => tickInterval = RetryPeriod

\* A ticker of part_000 has fired and its tick has been carried out.
C17_Witness ==
    /\ build = "part_000"
    /\ \E t \in TaskIds : task[t].ticked

\* C18: also when callbacks run setRole concurrently, every live refresh
\* task other than the one roleCancel cancels has already been cancelled.
C18_NoOrphanTask ==
    \A t \in TaskIds : (Alive(t) /\ t # roleCancel) => task[t].done

\* C19: with setRole calls made one after another, whenever the last call
\* has returned currentRole is the role of that call, roleCancel cancels a
\* started, uncancelled task bound to the marker path of that role, and the
\* tasks started are as many as the calls made with a role other than
\* currentRole.
C19_SequentialCalls ==
    /\ [](NoneInFlight => NumStarted = effective)
    /\ [](NoneInFlight /\ effective > 0 => LocalDone(currentRole))
    /\ [][\A cb \in Callbacks :
            (caller[cb].pc \in {"spawn", "return"}
               /\ caller'[cb].pc \notin {"spawn", "return"}) =>
                LocalDone(CallbackRole(cb))']_vars

\* Two calls made with a role other than currentRole have returned, the
\* last of them a step-down: two tasks started, the second bound to the
\* follower marker and the one roleCancel cancels.
C19_Witness ==
    /\ NoneInFlight
    /\ effective = 2
    /\ NumStarted = 2
    /\ LocalDone("follower")

\* C20: under the fairness of the goroutines' scheduling, every refresh task
\* whose cancel function has been called terminates at some time, and a
\* task terminates only if its cancel function has been called, whatever
\* errors its ticks have met.
C20_CancelledTasksTerminate ==
    /\ \A t \in TaskIds : (Alive(t) /\ task[t].done) ~> (task[t].pc = "exited")
    /\ [](\A t \in TaskIds : task[t].pc = "exited" => task[t].done)

\* A task has been cancelled and has returned while another, never
\* cancelled, has come through a tick and is still at its select.
C20_Witness ==
    \E t, u \in TaskIds :
        /\ task[t].pc = "exited"
        /\ task[u].pc = "select"
        /\ task[u].ticked
        /\ ~task[u].done

====
